---- MODULE Spec2Model ----
(***************************************************************************)
(* Model of electrum/invoices.py: the on-chain and lightning invoice       *)
(* records, their construction-time validators, the JSON factory, the      *)
(* lazily decoded lightning fields and the status string.                  *)
(*                                                                         *)
(* Python values are tagged records [kind, n, m, s]:                       *)
(*   kind "int"   an int n                 kind "str"   a str s            *)
(*   kind "none"  None                     kind "float" any other type     *)
(*   kind "rv"    a RavenValue whose rvn_value is n + m/1000               *)
(*   kind "dict"  the JSON form of a RavenValue with rvn_value n           *)
(*   kind "dec"   a Decimal amount in BTC, n counted in 1/UnitsPerBtc BTC  *)
(*   kind "label" / "expires"  the two shapes of a status string           *)
(* Amounts and durations are scaled down so that they fit TLC's integers:  *)
(* durations are counted in hours, and COIN and the supply limit are small.*)
(***************************************************************************)
EXTENDS Integers, Sequences, FiniteSets, TLC

VARIABLES
    inv,       \* the invoice object the construction returned, or NoInvoice
    lnaddr,    \* LNInvoice.__lnaddr of inv: the decode cache (PyNone when empty)
    decodes,   \* number of lndecode calls made by the _lnaddr property on inv
    call,      \* the construction call that was made: entry point and argument
    last,      \* the last call on inv: [op, exc, ret]
    first,     \* per accessor, the value its first call on inv returned
    rt,        \* result of the last from_json(to_json(inv)): [exc, obj]
    pc,        \* per execution context: position inside the _lnaddr property
    tmp,       \* per execution context: the LnAddr it decoded, not yet stored
    tret       \* per execution context: what its last accessor call returned

vars == <<inv, lnaddr, decodes, call, last, first, rt, pc, tmp, tret>>

----------------------------------------------------------------------------
(* Bounds of the model *)

\* cap on the decode counter (the code decodes once; a cap keeps mutants finite)
MaxDecodes == 3
\* number of execution contexts sharing one lightning invoice
NumContexts == 2

----------------------------------------------------------------------------
(* Constants of the program *)

PR_TYPE_ONCHAIN == 0
PR_TYPE_LN == 2

PR_UNPAID == 0
PR_EXPIRED == 1
PR_UNKNOWN == 2
PR_PAID == 3
PR_INFLIGHT == 4
PR_FAILED == 5
PR_ROUTING == 6
PR_UNCONFIRMED == 7

\* the keys of pr_tooltips
pr_tooltips == {PR_UNPAID, PR_PAID, PR_UNKNOWN, PR_EXPIRED, PR_INFLIGHT,
                PR_FAILED, PR_ROUTING, PR_UNCONFIRMED}

\* 100 years, counted in hours (the source counts seconds)
LN_EXPIRY_NEVER == 100 * 365 * 24

\* imported from .ravencoin; scaled down (the real values exceed 32 bits)
COIN == 10
TOTAL_COIN_SUPPLY_LIMIT_IN_BTC == 21

\* resolution of a decoded lightning amount: a tenth of a millisatoshi
UnitsPerBtc == COIN * 1000 * 10

----------------------------------------------------------------------------
(* Python values *)

Val(k, n, s) == [kind |-> k, n |-> n, m |-> 0, s |-> s]
PyInt(n) == Val("int", n, "")
PyStr(s) == Val("str", 0, s)
PyNone == Val("none", 0, "")
PyFloat == Val("float", 0, "")
PyDict(n) == Val("dict", n, "")
PyDecimal(n) == Val("dec", n, "")
PyBool(b) == Val("bool", IF b THEN 1 ELSE 0, "")
Unset == Val("unset", 0, "")

\* RavenValue(value) and RavenValue() of .transaction
RavenValue(n) == Val("rv", n, "")
\* RavenValue.from_json of .transaction, on a well-formed JSON value
RavenValue_from_json(d) == RavenValue(d.n)

\* Python truthiness, as used by `or` and by `if amount_btc`
Truthy(v) ==
    CASE v.kind = "none" -> FALSE
      [] v.kind = "str" -> v.s # ""
      [] v.kind \in {"int", "dec", "rv"} -> v.n # 0 \/ v.m # 0
      [] OTHER -> TRUE

PyOr(a, b) == IF Truthy(a) THEN a ELSE b

\* results of a call that may raise
Return(v) == [exc |-> "none", value |-> v]
Raise(e) == [exc |-> e, value |-> PyNone]

----------------------------------------------------------------------------
(* Transaction outputs: an entry is a PartialTxOutput ("txo"), a legacy     *)
(* tuple that converts ("tuple"), or an entry whose conversion raises       *)
(* ("bad").                                                                 *)

TxOut(a) == [kind |-> "txo", address |-> a]
LegacyTuple(a) == [kind |-> "tuple", address |-> a]
BadEntry == [kind |-> "bad", address |-> ""]

\* PartialTxOutput.from_legacy_tuple(*output) of .transaction
from_legacy_tuple(output) ==
    IF output.kind = "tuple" THEN Return(TxOut(output.address)) ELSE Raise("Exception")

RECURSIVE decode_outputs_from(_, _)
decode_outputs_from(outputs, ret) ==
    IF outputs = <<>> THEN ret
    ELSE LET output == Head(outputs) IN
         IF output.kind # "txo"
         THEN LET conv == from_legacy_tuple(output) IN
              IF conv.exc # "none"
              THEN decode_outputs_from(Tail(outputs), ret)
              ELSE decode_outputs_from(Tail(outputs), Append(ret, conv.value))
         ELSE decode_outputs_from(Tail(outputs), Append(ret, output))

decode_outputs(outputs) == decode_outputs_from(outputs, <<>>)

----------------------------------------------------------------------------
(* The external codec (.lnaddr): a table over the invoice strings that are  *)
(* used as inputs. A decoded amount has millisatoshi resolution (BOLT-11).  *)

LnAddr(amt, expiry, date, desc, hash) ==
    [amount |-> amt, expiry |-> expiry, date |-> date,
     description |-> desc, paymenthash |-> hash]

NoLnAddr == LnAddr(PyNone, 0, 0, "", "")

WellFormedStrings == {"lnrvn1x1", "lnrvn0p1x1", "lnrvn20p1x0", "lnrvn1n1x2"}
InvoiceStrings == WellFormedStrings \cup {"lnbad"}

lndecode(s) ==
    CASE s = "lnrvn1x1"    -> Return(LnAddr(PyNone, 1, 5, "a", "h1"))
      [] s = "lnrvn0p1x1"  -> Return(LnAddr(PyDecimal(0), 1, 5, "b", "h2"))
      [] s = "lnrvn20p1x0" -> Return(LnAddr(PyDecimal(20), LN_EXPIRY_NEVER, 6, "d", "h4"))
      [] s = "lnrvn1n1x2"  -> Return(LnAddr(PyDecimal(1000), 2, 7, "e", "h5"))
      [] OTHER             -> [exc |-> "LnDecodeException", value |-> NoLnAddr]

\* int(amount_btc * COIN * 1000)
btc_to_msat(amount_btc) == (amount_btc.n * COIN * 1000) \div UnitsPerBtc

\* LnAddr.get_amount_msat of .lnaddr
LnAddr_get_amount_msat(addr) ==
    IF addr.amount.kind = "none" THEN PyNone ELSE PyInt(btc_to_msat(addr.amount))

----------------------------------------------------------------------------
(* Invoice objects: the class and the instance's attribute dictionary      *)

NoInvoice == [cls |-> "None", attrs |-> <<>>]
Object(cls, d) == [cls |-> cls, attrs |-> d]
Constructed(r) == [exc |-> "none", obj |-> r]
Failed(e) == [exc |-> e, obj |-> NoInvoice]

OnchainFields == {"type", "message", "amount_sat", "exp", "time", "id",
                  "outputs", "bip70", "requestor", "height"}
LNFields == {"type", "invoice", "amount_msat"}

\* mutant: the upper bound is exclusive
OnchainInvoice_validate_amount_exclusive(value) ==
    LET v == IF value.kind = "int" THEN RavenValue(value.n)
             ELSE IF value.kind = "dict" THEN RavenValue_from_json(value)
             ELSE value
    IN  IF v.kind = "rv"
        THEN IF ~(0 <= v.n /\ v.n < TOTAL_COIN_SUPPLY_LIMIT_IN_BTC * COIN)
             THEN Raise("InvoiceError")
             ELSE Return(v)
        ELSE IF v.kind = "str"
        THEN IF v.s # "!" THEN Raise("InvoiceError") ELSE Return(v)
        ELSE Raise("InvoiceError")

\* mutant: an int is normalized, an already canonical value is not recognized
OnchainInvoice_validate_amount_int_only(value) ==
    IF value.kind = "int"
    THEN IF ~(0 <= value.n /\ value.n <= TOTAL_COIN_SUPPLY_LIMIT_IN_BTC * COIN)
         THEN Raise("InvoiceError")
         ELSE Return(RavenValue(value.n))
    ELSE IF value.kind = "str"
    THEN IF value.s # "!" THEN Raise("InvoiceError") ELSE Return(value)
    ELSE Raise("InvoiceError")

\* OnchainInvoice._validate_amount; on success `value` is what is stored
OnchainInvoice_validate_amount(value) ==
    LET v == IF value.kind = "int" THEN RavenValue(value.n)
             ELSE IF value.kind = "dict" THEN RavenValue_from_json(value)
             ELSE value
    IN  IF v.kind = "rv"
        THEN IF ~(0 <= v.n /\ v.n <= TOTAL_COIN_SUPPLY_LIMIT_IN_BTC * COIN)
             THEN Raise("InvoiceError")
             ELSE Return(v)
        ELSE IF v.kind = "str"
        THEN IF v.s # "!" THEN Raise("InvoiceError") ELSE Return(v)
        ELSE Raise("InvoiceError")

\* LNInvoice._validate_amount
LNInvoice_validate_amount(value) ==
    IF value.kind = "none" THEN Return(value)
    ELSE IF value.kind = "int"
    THEN IF ~(0 <= value.n /\ value.n <= TOTAL_COIN_SUPPLY_LIMIT_IN_BTC * COIN * 1000)
         THEN Raise("InvoiceError")
         ELSE Return(value)
    ELSE Raise("InvoiceError")

\* LNInvoice._validate_invoice_str: the codec's exception propagates
LNInvoice_validate_invoice_str(value) == lndecode(value).exc

\* attr.validators.instance_of(int)
instance_of_int(value) == IF value.kind = "int" THEN "none" ELSE "TypeError"

\* OnchainInvoice(**x): the generated __init__ rejects unknown and missing
\* keywords, assigns (outputs through its converter), then runs the validators
\* in attribute order: amount_sat, exp, time, height.
OnchainInvoice(x) ==
    IF DOMAIN x # OnchainFields THEN Failed("TypeError")
    ELSE LET am == OnchainInvoice_validate_amount(x.amount_sat) IN
         IF am.exc # "none" THEN Failed(am.exc)
         ELSE IF instance_of_int(x.exp) # "none" THEN Failed("TypeError")
         ELSE IF instance_of_int(x.time) # "none" THEN Failed("TypeError")
         ELSE IF instance_of_int(x.height) # "none" THEN Failed("TypeError")
         ELSE Constructed(Object("OnchainInvoice",
                  [x EXCEPT !.amount_sat = am.value,
                            !.outputs = decode_outputs(x.outputs)]))

\* LNInvoice(**x): validators in attribute order: invoice, amount_msat
LNInvoice(x) ==
    IF DOMAIN x # LNFields THEN Failed("TypeError")
    ELSE IF LNInvoice_validate_invoice_str(x.invoice) # "none"
         THEN Failed(LNInvoice_validate_invoice_str(x.invoice))
    ELSE LET am == LNInvoice_validate_amount(x.amount_msat) IN
         IF am.exc # "none" THEN Failed(am.exc)
         ELSE Constructed(Object("LNInvoice", x))

\* x.get('type')
HasType(x) == "type" \in DOMAIN x

\* mutant: everything but the on-chain type goes to the lightning variant
from_json_ln_default(x) ==
    IF HasType(x) /\ x.type # PR_TYPE_ONCHAIN
    THEN LNInvoice(x)
    ELSE OnchainInvoice(x)

\* Invoice.from_json
from_json(x) ==
    IF HasType(x) /\ x.type = PR_TYPE_LN
    THEN LNInvoice(x)
    ELSE OnchainInvoice(x)

\* mutant: the codec's exception is not wrapped
from_bech32_unwrapped(invoice) ==
    LET dec == lndecode(invoice) IN
    IF dec.exc # "none" THEN Failed(dec.exc)
    ELSE LNInvoice([type |-> PR_TYPE_LN, invoice |-> invoice,
                    amount_msat |-> LnAddr_get_amount_msat(dec.value)])

\* LNInvoice.from_bech32
from_bech32(invoice) ==
    LET dec == lndecode(invoice) IN
    IF dec.exc # "none" THEN Failed("InvoiceError")
    ELSE LNInvoice([type |-> PR_TYPE_LN, invoice |-> invoice,
                    amount_msat |-> LnAddr_get_amount_msat(dec.value)])

\* OnchainInvoice.from_bip70_payreq; pr is the decoded payment request
from_bip70_payreq(pr, height) ==
    OnchainInvoice([type |-> PR_TYPE_ONCHAIN,
                    amount_sat |-> PyInt(pr.amount),
                    outputs |-> pr.outputs,
                    message |-> pr.memo,
                    id |-> pr.id,
                    time |-> PyInt(pr.time),
                    exp |-> PyInt(pr.expiration_date - pr.time),
                    bip70 |-> pr.raw,
                    requestor |-> pr.requestor,
                    height |-> PyInt(height)])

\* Invoice.is_lightning
is_lightning(self) == self.attrs.type = PR_TYPE_LN

----------------------------------------------------------------------------
(* The lightning invoice's decode cache and the fields derived from it     *)

CacheNone == [none |-> TRUE, addr |-> NoLnAddr]
Cached(a) == [none |-> FALSE, addr |-> a]

\* mutant: the cache is never found filled
lnaddr_is_none_always(cache) == TRUE

\* mutant: the value read by the test is returned, not the attribute
lnaddr_return_seen(cache, seen) == seen

\* LNInvoice._lnaddr, statement by statement. `seen` is what the test of
\* line 189 read; line 191 reads the attribute again.
lnaddr_is_none(cache) == cache.none
lnaddr_store(value) == Cached(value)
lnaddr_return(cache, seen) == cache

\* LNInvoice._lnaddr run without interruption: what it returns, the cache it
\* leaves and the number of times it called lndecode
LNInvoice_lnaddr(self, cache) ==
    IF lnaddr_is_none(cache)
    THEN LET stored == lnaddr_store(lndecode(self.attrs.invoice).value) IN
         [got |-> lnaddr_return(stored, cache), cache |-> stored, ndec |-> 1]
    ELSE [got |-> lnaddr_return(cache, cache), cache |-> cache, ndec |-> 0]

\* mutant: the stored fallback takes precedence over the encoded amount
get_amount_msat_fallback_first(self, addr) ==
    LET amount_btc == addr.amount
        amount == IF Truthy(amount_btc) THEN PyInt(btc_to_msat(amount_btc)) ELSE PyNone
    IN  PyOr(self.attrs.amount_msat, amount)

\* LNInvoice.get_amount_msat, given the LnAddr that self._lnaddr returned
get_amount_msat(self, addr) ==
    LET amount_btc == addr.amount
        amount == IF Truthy(amount_btc) THEN PyInt(btc_to_msat(amount_btc)) ELSE PyNone
    IN  PyOr(amount, self.attrs.amount_msat)

\* RavenValue(Satoshis(Decimal(amount_msat) / 1000)): an exact decimal quotient
msat_to_sat(amount_msat) ==
    [kind |-> "rv", n |-> amount_msat.n \div 1000, m |-> amount_msat.n % 1000, s |-> ""]

\* LNInvoice.get_amount_sat
LNInvoice_get_amount_sat(self, addr) ==
    LET amount_msat == get_amount_msat(self, addr) IN
    IF amount_msat.kind = "none" THEN PyNone ELSE msat_to_sat(amount_msat)

Accessors == {"rhash", "get_amount_msat", "get_amount_sat", "exp", "time", "message"}

\* the body of each accessor after it has read self._lnaddr
Derived(a, self, addr) ==
    CASE a = "rhash" -> PyStr(addr.paymenthash)
      [] a = "get_amount_msat" -> get_amount_msat(self, addr)
      [] a = "get_amount_sat" -> LNInvoice_get_amount_sat(self, addr)
      [] a = "exp" -> PyInt(addr.expiry)
      [] a = "time" -> PyInt(addr.date)
      [] a = "message" -> PyStr(addr.description)

\* an attribute read on None raises
AttributeError == Val("raised", 0, "AttributeError")

\* an accessor, given what self._lnaddr returned
accessor(a, self, got) ==
    IF got.none THEN AttributeError ELSE Derived(a, self, got.addr)

----------------------------------------------------------------------------
(* Queries of both variants *)

\* mutant: anything but a monetary value is shown as zero
OnchainInvoice_get_amount_sat_zero(self) ==
    IF self.attrs.amount_sat.kind = "rv" THEN self.attrs.amount_sat ELSE RavenValue(0)

\* OnchainInvoice.get_amount_sat
OnchainInvoice_get_amount_sat(self) == PyOr(self.attrs.amount_sat, RavenValue(0))

\* OnchainInvoice.get_address
get_address(self) ==
    IF Len(self.attrs.outputs) = 0 THEN Raise("IndexError")
    ELSE Return(PyStr(self.attrs.outputs[1].address))

Label(status) == Val("label", status, "")
Expires(expiration) == Val("expires", expiration, "")

\* mutant: only exp = 0 counts as "never"
status_str_nonzero(status, exp, time) ==
    IF status = PR_UNPAID
    THEN IF exp # 0 /\ exp # LN_EXPIRY_NEVER
         THEN Expires(exp + time)
         ELSE Label(status)
    ELSE Label(status)

\* the body of Invoice.get_status_str, given what self.exp and self.time read
status_str(status, exp, time) ==
    IF status = PR_UNPAID
    THEN IF exp > 0 /\ exp # LN_EXPIRY_NEVER
         THEN Expires(exp + time)
         ELSE Label(status)
    ELSE Label(status)

\* Invoice.get_status_str: on a lightning invoice self.exp and self.time are
\* the properties, read only when status is PR_UNPAID
get_status_str(self, cache, status) ==
    IF self.cls = "LNInvoice"
    THEN IF status = PR_UNPAID
         THEN LET r == LNInvoice_lnaddr(self, cache) IN
              [ret |-> IF r.got.none THEN AttributeError
                       ELSE status_str(status, accessor("exp", self, r.got).n,
                                       accessor("time", self, r.got).n),
               cache |-> r.cache, ndec |-> r.ndec]
         ELSE [ret |-> Label(status), cache |-> cache, ndec |-> 0]
    ELSE [ret |-> status_str(status, self.attrs.exp.n, self.attrs.time.n),
          cache |-> cache, ndec |-> 0]

----------------------------------------------------------------------------
(* Serialization (StoredObject.to_json of .json_db, and the JSON encoder)   *)

IsPrivate(k) == k = "_LNInvoice__lnaddr"

\* vars(self): the attributes, and the cache once it has been assigned
instance_dict(self, cache) ==
    IF self.cls = "LNInvoice" /\ ~cache.none
    THEN ("_LNInvoice__lnaddr" :> cache.addr) @@ self.attrs
    ELSE self.attrs

\* StoredObject.to_json: the instance dictionary without its private keys
to_json(self, cache) ==
    LET d == instance_dict(self, cache) IN
    [k \in {f \in DOMAIN d : ~IsPrivate(f)} |-> d[k]]

\* the JSON encoder: a RavenValue becomes its JSON form, an output its tuple
to_legacy_tuple(output) == LegacyTuple(output.address)
json_value(v) == IF v.kind = "rv" THEN PyDict(v.n) ELSE v
json_encode(d) ==
    IF "amount_sat" \in DOMAIN d
    THEN [d EXCEPT !.amount_sat = json_value(d.amount_sat),
                   !.outputs = [i \in 1..Len(d.outputs) |-> to_legacy_tuple(d.outputs[i])]]
    ELSE d

\* attrs equality: same class and equal declared attributes
InvoiceEq(a, b) == a.cls = b.cls /\ DOMAIN a.attrs = DOMAIN b.attrs /\ a.attrs = b.attrs

----------------------------------------------------------------------------
(* Inputs *)

SAT_CEILING == TOTAL_COIN_SUPPLY_LIMIT_IN_BTC * COIN
MSAT_CEILING == TOTAL_COIN_SUPPLY_LIMIT_IN_BTC * COIN * 1000

AmountSatInputs ==
    {PyInt(-1), PyInt(0), PyInt(1), PyInt(SAT_CEILING), PyInt(SAT_CEILING + 1),
     RavenValue(-1), RavenValue(0), RavenValue(SAT_CEILING), RavenValue(SAT_CEILING + 1),
     PyDict(1), PyDict(SAT_CEILING + 1),
     PyStr("!"), PyStr("1"), PyNone, PyFloat}

AmountMsatInputs ==
    {PyInt(-1), PyInt(0), PyInt(7), PyInt(MSAT_CEILING), PyInt(MSAT_CEILING + 1),
     RavenValue(7), PyDict(7), PyStr("!"), PyNone, PyFloat}

ExpInputs == {PyInt(-1), PyInt(0), PyInt(1), PyInt(LN_EXPIRY_NEVER), PyStr("1h")}
TimeInputs == {PyInt(0), PyInt(5)}
TypeInputs == {PR_TYPE_ONCHAIN, 1, PR_TYPE_LN}

OutputsInputs ==
    {<<>>, <<BadEntry>>, <<TxOut("a1")>>, <<BadEntry, LegacyTuple("a2")>>,
     <<LegacyTuple("a2"), BadEntry, TxOut("a1")>>}

OnchainRecord(t, a, e, ti, o) ==
    [type |-> t, message |-> "memo", amount_sat |-> a, exp |-> e, time |-> ti,
     id |-> "id1", outputs |-> o, bip70 |-> "", requestor |-> "", height |-> PyInt(1)]

LNRecord(t, s, a) == [type |-> t, invoice |-> s, amount_msat |-> a]

Without(x, k) == [f \in DOMAIN x \ {k} |-> x[f]]
WithExtra(x) == ("extra" :> PyInt(0)) @@ x

OnchainRecords ==
    {OnchainRecord(t, a, e, ti, o) :
        t \in TypeInputs, a \in AmountSatInputs, e \in ExpInputs,
        ti \in TimeInputs, o \in OutputsInputs}

LNRecords ==
    {LNRecord(t, s, a) : t \in TypeInputs, s \in InvoiceStrings, a \in AmountMsatInputs}

\* records with every declared field, records without 'type', records with an
\* undeclared field
JsonInputs ==
    LET full == OnchainRecords \cup LNRecords IN
    full \cup {Without(x, "type") : x \in {y \in full : y.type = PR_TYPE_ONCHAIN}}
         \cup {WithExtra(x) : x \in {y \in full : y.type # 1}}

NoPr == [amount |-> 0, outputs |-> <<>>, memo |-> "", id |-> "", time |-> 0,
         expiration_date |-> 0, raw |-> "", requestor |-> ""]

\* decoded BIP70 payment requests; expiration_date 0 is "no expiry"
PaymentRequests ==
    {[amount |-> a, outputs |-> o, memo |-> "memo", id |-> "id2", time |-> 5,
      expiration_date |-> x, raw |-> "0a", requestor |-> ""] :
        a \in {0, 1, SAT_CEILING + 1},
        o \in {<<>>, <<TxOut("a1")>>, <<TxOut("a1"), TxOut("a2")>>},
        x \in {0, 5, 6}}

Contexts == 1..NumContexts

----------------------------------------------------------------------------
(* State machine *)

NoCall == [entry |-> "none", x |-> <<>>, s |-> "", pr |-> NoPr]
Call(op, exc, ret, arg) == [op |-> op, exc |-> exc, ret |-> ret, arg |-> arg]
NoLocal == [seen |-> CacheNone, new |-> NoLnAddr]
NoRet == [op |-> "none", ret |-> Unset]
NoRt == [exc |-> "unset", obj |-> NoInvoice]

Init ==
    /\ inv = NoInvoice
    /\ lnaddr = CacheNone
    /\ decodes = 0
    /\ call = NoCall
    /\ last = Call("none", "none", PyNone, 0)
    /\ first = [a \in Accessors |-> Unset]
    /\ rt = NoRt
    /\ pc = [t \in Contexts |-> "idle"]
    /\ tmp = [t \in Contexts |-> NoLocal]
    /\ tret = [t \in Contexts |-> NoRet]

\* the three construction entry points: on success inv is the new object, on
\* failure there is none
FromJson(x) ==
    /\ call.entry = "none"
    /\ call' = [NoCall EXCEPT !.entry = "from_json", !.x = x]
    /\ LET r == from_json(x) IN
           /\ inv' = r.obj
           /\ last' = Call("construct", r.exc, PyNone, 0)
    /\ UNCHANGED <<lnaddr, decodes, first, rt, pc, tmp, tret>>

FromBech32(s) ==
    /\ call.entry = "none"
    /\ call' = [NoCall EXCEPT !.entry = "from_bech32", !.s = s]
    /\ LET r == from_bech32(s) IN
           /\ inv' = r.obj
           /\ last' = Call("construct", r.exc, PyNone, 0)
    /\ UNCHANGED <<lnaddr, decodes, first, rt, pc, tmp, tret>>

FromBip70Payreq(pr) ==
    /\ call.entry = "none"
    /\ call' = [NoCall EXCEPT !.entry = "from_bip70_payreq", !.pr = pr]
    /\ LET r == from_bip70_payreq(pr, 1) IN
           /\ inv' = r.obj
           /\ last' = Call("construct", r.exc, PyNone, 0)
    /\ UNCHANGED <<lnaddr, decodes, first, rt, pc, tmp, tret>>

\* one of the lightning accessors, in a single execution context
Access(a) ==
    /\ inv.cls = "LNInvoice"
    /\ LET r == LNInvoice_lnaddr(inv, lnaddr)
           ret == accessor(a, inv, r.got)
       IN  /\ decodes + r.ndec <= MaxDecodes
           /\ lnaddr' = r.cache
           /\ decodes' = decodes + r.ndec
           /\ last' = Call(a, "none", ret, 0)
           /\ first' = IF first[a] = Unset THEN [first EXCEPT ![a] = ret] ELSE first
    /\ rt' = NoRt
    /\ UNCHANGED <<inv, call, pc, tmp, tret>>

GetAmountSat ==
    /\ inv.cls = "OnchainInvoice"
    /\ last' = Call("get_amount_sat", "none", OnchainInvoice_get_amount_sat(inv), 0)
    /\ rt' = NoRt
    /\ UNCHANGED <<inv, lnaddr, decodes, call, first, pc, tmp, tret>>

GetAddress ==
    /\ inv.cls = "OnchainInvoice"
    /\ LET r == get_address(inv) IN last' = Call("get_address", r.exc, r.value, 0)
    /\ rt' = NoRt
    /\ UNCHANGED <<inv, lnaddr, decodes, call, first, pc, tmp, tret>>

IsLightning ==
    /\ inv.cls # "None"
    /\ last' = Call("is_lightning", "none", PyBool(is_lightning(inv)), 0)
    /\ rt' = NoRt
    /\ UNCHANGED <<inv, lnaddr, decodes, call, first, pc, tmp, tret>>

GetStatusStr(status) ==
    /\ inv.cls # "None"
    /\ LET r == get_status_str(inv, lnaddr, status) IN
           /\ decodes + r.ndec <= MaxDecodes
           /\ lnaddr' = r.cache
           /\ decodes' = decodes + r.ndec
           /\ last' = Call("get_status_str", "none", r.ret, status)
    /\ rt' = NoRt
    /\ UNCHANGED <<inv, call, first, pc, tmp, tret>>

\* from_json(to_json(inv)), on the dictionary itself or on its JSON encoding
RoundTrip(encoded) ==
    /\ inv.cls # "None"
    /\ LET d == to_json(inv, lnaddr) IN
           rt' = from_json(IF encoded THEN json_encode(d) ELSE d)
    /\ last' = Call("to_json", "none", PyNone, IF encoded THEN 1 ELSE 0)
    /\ UNCHANGED <<inv, lnaddr, decodes, call, first, pc, tmp, tret>>

----------------------------------------------------------------------------
(* Several execution contexts calling accessors of one lightning invoice:   *)
(* each statement of LNInvoice._lnaddr is a step of its own.                *)

Begin(t, a) ==
    /\ inv.cls = "LNInvoice"
    /\ pc[t] = "idle"
    /\ pc' = [pc EXCEPT ![t] = "check"]
    /\ tret' = [tret EXCEPT ![t] = [op |-> a, ret |-> Unset]]
    /\ UNCHANGED <<inv, lnaddr, decodes, call, last, first, rt, tmp>>

\* line 189: if self.__lnaddr is None
Check(t) ==
    /\ pc[t] = "check"
    /\ tmp' = [tmp EXCEPT ![t].seen = lnaddr]
    /\ pc' = [pc EXCEPT ![t] = IF lnaddr_is_none(lnaddr) THEN "decode" ELSE "return"]
    /\ UNCHANGED <<inv, lnaddr, decodes, call, last, first, rt, tret>>

\* line 190, right-hand side: lndecode(self.invoice)
Decode(t) ==
    /\ pc[t] = "decode"
    /\ tmp' = [tmp EXCEPT ![t].new = lndecode(inv.attrs.invoice).value]
    /\ pc' = [pc EXCEPT ![t] = "store"]
    /\ UNCHANGED <<inv, lnaddr, decodes, call, last, first, rt, tret>>

\* line 190: the assignment to self.__lnaddr
Store(t) ==
    /\ pc[t] = "store"
    /\ lnaddr' = lnaddr_store(tmp[t].new)
    /\ pc' = [pc EXCEPT ![t] = "return"]
    /\ UNCHANGED <<inv, decodes, call, last, first, rt, tmp, tret>>

\* line 191 and the accessor's own body
Finish(t) ==
    /\ pc[t] = "return"
    /\ tret' = [tret EXCEPT ![t].ret =
                   accessor(tret[t].op, inv, lnaddr_return(lnaddr, tmp[t].seen))]
    /\ tmp' = [tmp EXCEPT ![t] = NoLocal]
    /\ pc' = [pc EXCEPT ![t] = "idle"]
    /\ UNCHANGED <<inv, lnaddr, decodes, call, last, first, rt>>

Next ==
    \/ \E x \in JsonInputs : FromJson(x)
    \/ \E s \in InvoiceStrings : FromBech32(s)
    \/ \E pr \in PaymentRequests : FromBip70Payreq(pr)
    \/ \E a \in Accessors : Access(a)
    \/ GetAmountSat
    \/ GetAddress
    \/ IsLightning
    \/ \E status \in pr_tooltips : GetStatusStr(status)
    \/ \E encoded \in BOOLEAN : RoundTrip(encoded)

Spec == Init /\ [][Next]_vars

NextContexts ==
    \/ \E s \in InvoiceStrings : FromBech32(s)
    \/ \E t \in Contexts, a \in Accessors : Begin(t, a)
    \/ \E t \in Contexts : Check(t)
    \/ \E t \in Contexts : Decode(t)
    \/ \E t \in Contexts : Store(t)
    \/ \E t \in Contexts : Finish(t)

SpecContexts == Init /\ [][NextContexts]_vars

----------------------------------------------------------------------------
(* Vocabulary of the properties *)

JustConstructed == last.op = "construct"
ViaJson == JustConstructed /\ call.entry = "from_json"
Succeeded == last.exc = "none" /\ inv.cls # "None"
RaisedOnly(e) == last.exc = e /\ inv.cls = "None"

\* the variant from_json's record is aimed at, and its other fields being valid
TargetsLN(x) == HasType(x) /\ x.type = PR_TYPE_LN
OnchainRestValid(x) ==
    /\ DOMAIN x = OnchainFields
    /\ ~TargetsLN(x)
    /\ x.exp.kind = "int" /\ x.time.kind = "int" /\ x.height.kind = "int"
LNRestValid(x) ==
    /\ DOMAIN x = LNFields
    /\ TargetsLN(x)
    /\ x.invoice \in WellFormedStrings

InRange(v, scale) == 0 <= v.n /\ v.n <= TOTAL_COIN_SUPPLY_LIMIT_IN_BTC * COIN * scale
IsSentinel(v) == v.kind = "str" /\ v.s = "!"

\* the amounts the claim C1 lists as accepted (the canonical monetary value
\* read as an on-chain representation only)
ListedSat(v) == (v.kind \in {"int", "rv"} /\ InRange(v, 1)) \/ IsSentinel(v)
ListedMsat(v) == (v.kind = "int" /\ InRange(v, 1000)) \/ v.kind = "none"

\* the amounts that are accepted
AcceptedSat(v) == (v.kind \in {"int", "rv", "dict"} /\ InRange(v, 1)) \/ IsSentinel(v)
AcceptedMsat(v) == (v.kind = "int" /\ InRange(v, 1000)) \/ v.kind = "none"

----------------------------------------------------------------------------
\* C1 (as stated): with every other field valid, construction succeeds exactly
\* for an integer or canonical monetary value in [0, ceiling * scale], "!"
\* (on-chain) or None (lightning), and raises InvoiceError for any other amount.
C1_AmountValidationAsStated ==
    ViaJson =>
        /\ OnchainRestValid(call.x) =>
               IF ListedSat(call.x.amount_sat) THEN Succeeded ELSE RaisedOnly("InvoiceError")
        /\ LNRestValid(call.x) =>
               IF ListedMsat(call.x.amount_msat) THEN Succeeded ELSE RaisedOnly("InvoiceError")

\* C1 (amended): on-chain, an integer, a canonical monetary value or the JSON
\* form of one is accepted when it lies in [0, ceiling], and so is "!";
\* lightning, None or an integer in [0, ceiling * 1000] is accepted, a
\* canonical monetary value is not; every other amount raises InvoiceError and
\* no invoice is produced. A payment request's integer amount is held to the
\* same range.
C1_AmountValidation ==
    /\ ViaJson =>
        /\ OnchainRestValid(call.x) =>
               IF AcceptedSat(call.x.amount_sat) THEN Succeeded ELSE RaisedOnly("InvoiceError")
        /\ LNRestValid(call.x) =>
               IF AcceptedMsat(call.x.amount_msat) THEN Succeeded ELSE RaisedOnly("InvoiceError")
    /\ (JustConstructed /\ call.entry = "from_bip70_payreq") =>
           IF InRange(PyInt(call.pr.amount), 1) THEN Succeeded ELSE RaisedOnly("InvoiceError")

\* an on-chain invoice built from the JSON form of an amount, stored canonical
C1_Witness ==
    /\ ViaJson /\ OnchainRestValid(call.x) /\ Succeeded
    /\ call.x.amount_sat.kind = "dict"
    /\ inv.attrs.amount_sat = RavenValue(call.x.amount_sat.n)

----------------------------------------------------------------------------
\* the listed causes of a failed construction
ExtraField(x) ==
    /\ "extra" \in DOMAIN x
    /\ DOMAIN x \ {"extra"} = (IF TargetsLN(x) THEN LNFields ELSE OnchainFields)
MalformedString(x) == DOMAIN x = LNFields /\ TargetsLN(x) /\ x.invoice \notin WellFormedStrings
BadAmount(x) ==
    \/ OnchainRestValid(x) /\ ~AcceptedSat(x.amount_sat)
    \/ LNRestValid(x) /\ ~AcceptedMsat(x.amount_msat)

\* C2 (as stated): every construction that fails for an amount out of range,
\* an unrecognized amount, a malformed invoice string or an extra JSON field
\* raises InvoiceError, through every entry point.
C2_SingleErrorKindAsStated ==
    /\ (ViaJson /\ (ExtraField(call.x) \/ MalformedString(call.x) \/ BadAmount(call.x)))
           => RaisedOnly("InvoiceError")
    /\ (JustConstructed /\ call.entry = "from_bech32" /\ call.s \notin WellFormedStrings)
           => RaisedOnly("InvoiceError")
    /\ (JustConstructed /\ call.entry = "from_bip70_payreq" /\ ~Succeeded)
           => RaisedOnly("InvoiceError")

\* C2 (amended): a bad amount raises InvoiceError through every entry point,
\* and so does a malformed string given to from_bech32; through from_json a
\* malformed string raises the codec's own exception and an extra field raises
\* TypeError. Every failure leaves no invoice.
C2_ErrorKinds ==
    /\ (ViaJson /\ BadAmount(call.x)) => RaisedOnly("InvoiceError")
    /\ (ViaJson /\ MalformedString(call.x)) => RaisedOnly("LnDecodeException")
    /\ (ViaJson /\ ExtraField(call.x)) => RaisedOnly("TypeError")
    /\ (JustConstructed /\ call.entry = "from_bech32" /\ call.s \notin WellFormedStrings)
           => RaisedOnly("InvoiceError")
    /\ (JustConstructed /\ call.entry = "from_bip70_payreq" /\ ~Succeeded)
           => RaisedOnly("InvoiceError")
    /\ (JustConstructed /\ last.exc # "none") => inv.cls = "None"

\* a record that is valid but for one undeclared field, rejected with TypeError
C2_Witness ==
    /\ ViaJson /\ ExtraField(call.x) /\ RaisedOnly("TypeError")
    /\ TargetsLN(call.x)
    /\ call.x.invoice \in WellFormedStrings /\ AcceptedMsat(call.x.amount_msat)

----------------------------------------------------------------------------
\* C3: from_json(to_json(invoice)) succeeds and gives an invoice of the same
\* variant with equal stored fields, for every constructed invoice, whether or
\* not the lightning decode cache has been filled.
C3_JsonRoundTrip ==
    last.op = "to_json" => (rt.exc = "none" /\ InvoiceEq(rt.obj, inv))

\* a lightning invoice round-tripped after its cache was filled
C3_Witness ==
    /\ last.op = "to_json" /\ rt.exc = "none"
    /\ inv.cls = "LNInvoice" /\ ~lnaddr.none
    /\ rt.obj.cls = "LNInvoice"

----------------------------------------------------------------------------
\* the record without its discriminator is otherwise a valid on-chain record
OnchainButForType(x) ==
    /\ DOMAIN x \cup {"type"} = OnchainFields
    /\ ~TargetsLN(x)
    /\ x.exp.kind = "int" /\ x.time.kind = "int" /\ x.height.kind = "int"
    /\ AcceptedSat(x.amount_sat)
ValidLN(x) == LNRestValid(x) /\ AcceptedMsat(x.amount_msat)

\* C4 (as stated): from_json returns the lightning variant when 'type' is 2,
\* and an on-chain invoice when 'type' is 0, unrecognized or absent;
\* is_lightning() is true exactly on the lightning variant.
C4_FactoryDispatchAsStated ==
    /\ (ViaJson /\ ValidLN(call.x)) => (Succeeded /\ inv.cls = "LNInvoice")
    /\ (ViaJson /\ OnchainButForType(call.x)) => (Succeeded /\ inv.cls = "OnchainInvoice")
    /\ (last.op = "is_lightning" /\ call.entry = "from_json")
           => (last.ret = PyBool(TRUE) <=> inv.cls = "LNInvoice")

\* C4 (amended): as stated when 'type' is present; a record without 'type' is
\* handed to the on-chain constructor, which raises TypeError for the missing
\* field and returns no invoice.
C4_FactoryDispatch ==
    /\ (ViaJson /\ ValidLN(call.x)) => (Succeeded /\ inv.cls = "LNInvoice")
    /\ (ViaJson /\ OnchainButForType(call.x) /\ HasType(call.x))
           => (Succeeded /\ inv.cls = "OnchainInvoice")
    /\ (ViaJson /\ OnchainButForType(call.x) /\ ~HasType(call.x))
           => RaisedOnly("TypeError")
    /\ (last.op = "is_lightning" /\ call.entry = "from_json")
           => (last.ret = PyBool(TRUE) <=> inv.cls = "LNInvoice")

\* an otherwise valid on-chain record without 'type' has been rejected
C4_Witness ==
    ViaJson /\ OnchainButForType(call.x) /\ ~HasType(call.x) /\ RaisedOnly("TypeError")

----------------------------------------------------------------------------
\* an on-chain invoice asking for "max available", with an output and exp = 0
MaxInvoice ==
    /\ inv.cls = "OnchainInvoice"
    /\ IsSentinel(inv.attrs.amount_sat)
    /\ Len(inv.attrs.outputs) >= 1
    /\ inv.attrs.exp = PyInt(0)
MaxRecord(x) ==
    /\ OnchainRestValid(x) /\ IsSentinel(x.amount_sat)
    /\ Len(decode_outputs(x.outputs)) >= 1 /\ x.exp = PyInt(0)

\* C5 (as stated): such an invoice is constructed, and its get_amount_sat()
\* returns the zero-value amount while the stored field keeps the sentinel.
C5_MaxAmountAsStated ==
    /\ (ViaJson /\ MaxRecord(call.x)) => (Succeeded /\ MaxInvoice)
    /\ (last.op = "get_amount_sat" /\ MaxInvoice) => last.ret = RavenValue(0)

\* C5 (amended): such an invoice is constructed, and its get_amount_sat()
\* returns the sentinel "!" itself, which is also what the stored field holds.
C5_MaxAmount ==
    /\ (ViaJson /\ MaxRecord(call.x)) => (Succeeded /\ MaxInvoice)
    /\ (last.op = "get_amount_sat" /\ MaxInvoice) => last.ret = PyStr("!")

C5_Witness == last.op = "get_amount_sat" /\ MaxInvoice /\ last.ret = inv.attrs.amount_sat

----------------------------------------------------------------------------
\* what decoding the stored invoice string gives
Decoded == lndecode(inv.attrs.invoice).value

C6_State ==
    inv.cls = "LNInvoice" =>
        /\ decodes <= 1
        /\ (lnaddr.none <=> decodes = 0)
        /\ ~lnaddr.none => lnaddr = Cached(Decoded)
        /\ last.op \in Accessors => last.ret = first[last.op]

C6_Step ==
    /\ decodes' > decodes => lnaddr.none
    /\ lnaddr' # lnaddr => (lnaddr.none /\ lnaddr' = Cached(Decoded))

\* C6: in one execution context the accessors of a lightning invoice call the
\* codec at most once, and only on finding the cache empty; the cache changes
\* only from empty to the decoded value of the stored string; every call of an
\* accessor returns what its first call returned.
C6_LazyDecodeOnce == []C6_State /\ [][C6_Step]_vars

\* every accessor has been called, after a single decode
C6_Witness ==
    /\ inv.cls = "LNInvoice" /\ decodes = 1
    /\ \A a \in Accessors : first[a] # Unset
    /\ last.op = "rhash"

----------------------------------------------------------------------------
\* the encoded amount in millisatoshi, when the string carries a non-zero one
HasEncodedAmount == Decoded.amount.kind # "none" /\ Decoded.amount.n # 0
EncodedMsat == PyInt((Decoded.amount.n * COIN * 1000) \div UnitsPerBtc)
ExpectedMsat == IF HasEncodedAmount THEN EncodedMsat ELSE inv.attrs.amount_msat

\* C7: get_amount_msat() returns the encoded amount in millisatoshi when it is
\* present and non-zero, otherwise the stored fallback, which may be None;
\* get_amount_sat() returns None exactly when get_amount_msat() does, and
\* otherwise the millisatoshi amount divided by 1000.
C7_AmountPrecedence ==
    inv.cls = "LNInvoice" =>
        /\ last.op = "get_amount_msat" => last.ret = ExpectedMsat
        /\ last.op = "get_amount_sat" =>
               /\ last.ret.kind = "none" <=> ExpectedMsat.kind = "none"
               /\ last.ret.kind # "none" =>
                      /\ last.ret.kind = "rv"
                      /\ last.ret.n * 1000 + last.ret.m = ExpectedMsat.n
                      /\ last.ret.m \in 0..999

\* an encoded amount wins over a different stored fallback
C7_Witness ==
    /\ inv.cls = "LNInvoice" /\ last.op = "get_amount_msat"
    /\ HasEncodedAmount
    /\ inv.attrs.amount_msat.kind = "int" /\ inv.attrs.amount_msat # EncodedMsat
    /\ last.ret = EncodedMsat

----------------------------------------------------------------------------
\* what self.exp and self.time read on inv
ExpOf == IF inv.cls = "LNInvoice" THEN Decoded.expiry ELSE inv.attrs.exp.n
TimeOf == IF inv.cls = "LNInvoice" THEN Decoded.date ELSE inv.attrs.time.n

\* C8 (as stated): get_status_str(status) is the countdown to time + exp exactly
\* when status is unpaid and exp is neither 0 nor LN_EXPIRY_NEVER; otherwise it
\* is the fixed label of the status.
C8_StatusStrAsStated ==
    last.op = "get_status_str" =>
        IF last.arg = PR_UNPAID /\ ExpOf # 0 /\ ExpOf # LN_EXPIRY_NEVER
        THEN last.ret = Expires(TimeOf + ExpOf)
        ELSE last.ret = Label(last.arg)

\* C8 (amended): get_status_str(status) is the countdown to time + exp exactly
\* when status is unpaid and exp is positive and not LN_EXPIRY_NEVER; an unpaid
\* invoice with exp = 0 or a negative exp, and every other status, gets the
\* fixed label of the status.
C8_StatusStr ==
    last.op = "get_status_str" =>
        IF last.arg = PR_UNPAID /\ ExpOf > 0 /\ ExpOf # LN_EXPIRY_NEVER
        THEN last.ret = Expires(TimeOf + ExpOf)
        ELSE last.ret = Label(last.arg)

\* an unpaid invoice with a negative exp shows the plain label
C8_Witness ==
    /\ last.op = "get_status_str" /\ last.arg = PR_UNPAID
    /\ ExpOf < 0
    /\ last.ret = Label(PR_UNPAID)

----------------------------------------------------------------------------
\* the entries of a sequence of outputs that convert, converted, in order
RECURSIVE Convertible(_)
Convertible(outputs) ==
    IF outputs = <<>> THEN <<>>
    ELSE IF Head(outputs).kind = "bad" THEN Convertible(Tail(outputs))
    ELSE <<TxOut(Head(outputs).address)>> \o Convertible(Tail(outputs))

\* C9: the outputs of every constructed on-chain invoice are non-empty,
\* whatever the input sequence, and get_address() is defined on it.
C9_OutputsNonEmpty ==
    inv.cls = "OnchainInvoice" =>
        /\ Len(inv.attrs.outputs) >= 1
        /\ last.op = "get_address" => last.exc = "none"

\* What the constructor does instead: the outputs are the entries of the input
\* that convert, in order; they are empty when the input is empty or no entry
\* converts, and get_address() then raises IndexError.
OutputsNormalized ==
    inv.cls = "OnchainInvoice" =>
        /\ call.entry = "from_json" => inv.attrs.outputs = Convertible(call.x.outputs)
        /\ call.entry = "from_bip70_payreq" => inv.attrs.outputs = Convertible(call.pr.outputs)
        /\ last.op = "get_address" =>
               IF Len(inv.attrs.outputs) = 0
               THEN last.exc = "IndexError"
               ELSE last.exc = "none" /\ last.ret = PyStr(inv.attrs.outputs[1].address)

\* an invoice whose only output entry was dropped, asked for its address
EmptyOutputsReached ==
    /\ inv.cls = "OnchainInvoice" /\ call.entry = "from_json"
    /\ call.x.outputs = <<BadEntry>>
    /\ inv.attrs.outputs = <<>>
    /\ last.op = "get_address" /\ last.exc = "IndexError"

----------------------------------------------------------------------------
C10_State ==
    inv.cls = "LNInvoice" =>
        /\ \A t \in Contexts :
               tret[t].ret # Unset => tret[t].ret = Derived(tret[t].op, inv, Decoded)
        /\ ~lnaddr.none => lnaddr = Cached(Decoded)
        /\ (\E t \in Contexts : tret[t].ret # Unset) => ~lnaddr.none

C10_Step == ~lnaddr.none => lnaddr' = lnaddr

\* C10: when several execution contexts call accessors of one lightning
\* invoice, under every interleaving of the test, the decode and the store each
\* accessor returns the value derived from decoding the stored string, the
\* cache holds that decoded value once any call has returned, and a non-empty
\* cache never changes again.
C10_RaceSafeOutcome == []C10_State /\ [][C10_Step]_vars

\* two contexts have both decoded and both are about to store: a redundant decode
C10_Witness ==
    /\ inv.cls = "LNInvoice"
    /\ pc[1] = "store" /\ pc[2] = "store"
    /\ tmp[1].new = Decoded /\ tmp[2].new = Decoded

====
